---- MODULE Spec2Model ----
(***************************************************************************)
(* A model of src/lib/neural-chunk.js: the NeuralChunk class (a chunk of   *)
(* the brain's 3D neuron database) and its static chunk-addressing         *)
(* functions.                                                              *)
(*                                                                         *)
(* Three specifications:                                                   *)
(*   Spec            a NeuralChunk and the methods on its neurons;         *)
(*   SpecCoordinate  a NeuralChunk and the methods on its coordinate;      *)
(*   SpecAddr        the static functions, applied to inputs from bounded  *)
(*                   sets.                                                 *)
(***************************************************************************)
EXTENDS Integers, Sequences, FiniteSets

VARIABLES
    x, y, z,        \* this.x, this.y, this.z: the chunk's coordinate
    neurons,        \* this.neurons: nested object, x -> y -> z -> Neuron
    rawNeurons,     \* this.rawNeurons: array of Neuron, in push order
    call            \* the last call made: its name, arguments and outcome

vars == <<x, y, z, neurons, rawNeurons, call>>

----------------------------------------------------------------------------
(* Bounds and input sets *)

\* Longest rawNeurons array explored.
MaxRaw == 2

\* Coordinates a chunk is constructed with, per axis, where its neurons are
\* explored.
ChunkCoords == {0, 1}

\* Coordinates a chunk is constructed with, and compared with, per axis,
\* where its coordinate is explored.
NeighbourCoords == {-1, 0, 1}

\* Coordinates a neuron's position is drawn from, per axis.
NeuronCoords == {0, 1}

\* Payloads of a neuron; "" is the empty payload.
Payloads == {"", "a"}

----------------------------------------------------------------------------
(* External collaborators: Vector3Int and Neuron *)

\* new Vector3Int(a, b, c)
Vector3Int(a, b, c) == [x |-> a, y |-> b, z |-> c]

\* The Neuron objects of the world: a position and a payload.
Neuron == [position : [x : NeuronCoords, y : NeuronCoords, z : NeuronCoords],
           data : Payloads]

\* neuron.getPositionAsVector3Int()
getPositionAsVector3Int(neuron) == neuron.position

----------------------------------------------------------------------------
(* JavaScript values *)

\* undefined
Undefined == [type |-> "undefined"]

\* A JavaScript number: a finite integer, or NaN, Infinity, -Infinity.
Fin(n) == [kind |-> "finite", val |-> n]
NaN == [kind |-> "NaN", val |-> 0]
PosInfinity == [kind |-> "Infinity", val |-> 0]
NegInfinity == [kind |-> "-Infinity", val |-> 0]

\* An empty object literal {}.
EmptyObject == [k \in {} |-> Undefined]

\* obj[k] = v
SetProperty(obj, k, v) ==
    [kk \in (DOMAIN obj) \cup {k} |-> IF kk = k THEN v ELSE obj[kk]]

\* Number(array), as the comparison i < array converts its right operand:
\* [] becomes "" and then 0; an array of Neuron objects becomes
\* "[object Object]" (joined by commas), which is no number.
ArrayToNumber(array) == IF Len(array) = 0 THEN Fin(0) ELSE NaN

\* i < n for an integer i and a JavaScript number n; false against NaN.
LessThanNumber(i, n) ==
    CASE n.kind = "finite" -> i < n.val
      [] n.kind = "Infinity" -> TRUE
      [] OTHER -> FALSE

----------------------------------------------------------------------------
(* NeuralChunk: the methods' computations *)

\* The properties created on the way to the neuron's position (lines 37-42).
CreateProperties(obj, p) ==
    LET o1 == IF p.x \notin DOMAIN obj
              THEN SetProperty(obj, p.x, EmptyObject) ELSE obj
        o2 == IF p.y \notin DOMAIN o1[p.x]
              THEN SetProperty(o1, p.x, SetProperty(o1[p.x], p.y, EmptyObject))
              ELSE o1
    IN  o2

\* The collision test lost: no position is ever found occupied.
NeuronCollision_Never(obj, p) == FALSE

\* z in this.neurons[x][y]: a neuron already exists at this point (line 45).
NeuronCollision(obj, p) == p.z \in DOMAIN obj[p.x][p.y]

\* this.neurons[x][y][z] = neuron (line 49).
StoreNeuron(obj, p, neuron) ==
    SetProperty(obj, p.x,
        SetProperty(obj[p.x], p.y,
            SetProperty(obj[p.x][p.y], p.z, neuron)))

\* getNeuronFromPosition(position)
getNeuronFromPosition(position) ==
    IF position.x \in DOMAIN neurons
    THEN IF position.y \in DOMAIN neurons[position.x]
         THEN IF position.z \in DOMAIN neurons[position.x][position.y]
              THEN neurons[position.x][position.y][position.z]
              ELSE Undefined
         ELSE Undefined
    ELSE Undefined

\* The indices the loop of hasEmptyNeurons visits: i from 0 while
\* i < this.rawNeurons, the array itself and not its length.
\* Number(array) is 0 or NaN, so no visited index lies outside the array.
LoopIndices(array) ==
    {i \in 0..(Len(array) - 1) :
        \A j \in 0..i : LessThanNumber(j, ArrayToNumber(array))}

\* hasEmptyNeurons(): true when a visited neuron has data === "".
hasEmptyNeurons ==
    \E i \in LoopIndices(rawNeurons) : rawNeurons[i + 1].data = ""

\* The 26 pushes of getAdjacentChunkPositions, in order (lines 101-135), for
\* a chunk whose this.x, this.y, this.z are cx, cy, cz. The code reads this.x
\* where the second coordinate is built, and never this.y.
AdjacentChunkPositionsOf(cx, cy, cz) ==
    << \* All corners
       Vector3Int(cx + 1, cx + 1, cz + 1),
       Vector3Int(cx + 1, cx + 1, cz - 1),
       Vector3Int(cx - 1, cx + 1, cz + 1),
       Vector3Int(cx - 1, cx + 1, cz - 1),
       Vector3Int(cx + 1, cx - 1, cz + 1),
       Vector3Int(cx + 1, cx - 1, cz - 1),
       Vector3Int(cx - 1, cx - 1, cz + 1),
       Vector3Int(cx - 1, cx - 1, cz - 1),
       \* All directly adjacent cross faces
       Vector3Int(cx, cx + 1, cz),
       Vector3Int(cx, cx - 1, cz),
       Vector3Int(cx + 1, cx, cz),
       Vector3Int(cx - 1, cx, cz),
       Vector3Int(cx, cx, cz + 1),
       Vector3Int(cx, cx, cz - 1),
       \* All edge-meeting chunks
       Vector3Int(cx + 1, cx + 1, cz),
       Vector3Int(cx + 1, cx - 1, cz),
       Vector3Int(cx - 1, cx + 1, cz),
       Vector3Int(cx - 1, cx - 1, cz),
       Vector3Int(cx, cx + 1, cz + 1),
       Vector3Int(cx, cx - 1, cz + 1),
       Vector3Int(cx, cx + 1, cz - 1),
       Vector3Int(cx, cx - 1, cz - 1),
       \* All vertically middle corner chunks
       Vector3Int(cx + 1, cx, cz + 1),
       Vector3Int(cx + 1, cx, cz - 1),
       Vector3Int(cx - 1, cx, cz + 1),
       Vector3Int(cx - 1, cx, cz - 1) >>

\* getAdjacentChunkPositions()
getAdjacentChunkPositions == AdjacentChunkPositionsOf(x, y, z)

\* isEqual(otherChunk)
isEqual(otherChunk) ==
    otherChunk.x = x /\ otherChunk.y = y /\ otherChunk.z = z

\* toJSON()
toJSON == [rawNeurons |-> rawNeurons]

----------------------------------------------------------------------------
(* NeuralChunk: one action per method *)

\* new NeuralChunk(x, y, z), the coordinates drawn from coords.
Constructor(coords) ==
    /\ x \in coords
    /\ y \in coords
    /\ z \in coords
    /\ neurons = EmptyObject
    /\ rawNeurons = <<>>
    /\ call = [op |-> "constructor", outcome |-> "return", value |-> Undefined]

Init == Constructor(ChunkCoords)

InitCoordinate == Constructor(NeighbourCoords)

\* addNeuron(neuron)
AddNeuron(neuron) ==
    LET neuronPosition == getPositionAsVector3Int(neuron)
        created == CreateProperties(neurons, neuronPosition)
    IN  /\ Len(rawNeurons) < MaxRaw
        /\ rawNeurons' = Append(rawNeurons, neuron)
        /\ IF NeuronCollision(created, neuronPosition)
           THEN /\ neurons' = created
                /\ call' = [op |-> "addNeuron", neuron |-> neuron,
                            outcome |-> "throw",
                            value |-> [type |-> "Neuron collision!",
                                       position |-> neuronPosition]]
           ELSE /\ neurons' = StoreNeuron(created, neuronPosition, neuron)
                /\ call' = [op |-> "addNeuron", neuron |-> neuron,
                            outcome |-> "return", value |-> Undefined]
        /\ UNCHANGED <<x, y, z>>

\* getNeuronFromPosition(position)
GetNeuronFromPosition(position) ==
    /\ call' = [op |-> "getNeuronFromPosition", position |-> position,
                outcome |-> "return",
                value |-> getNeuronFromPosition(position)]
    /\ UNCHANGED <<x, y, z, neurons, rawNeurons>>

\* hasEmptyNeurons()
HasEmptyNeurons ==
    /\ call' = [op |-> "hasEmptyNeurons", outcome |-> "return",
                value |-> hasEmptyNeurons]
    /\ UNCHANGED <<x, y, z, neurons, rawNeurons>>

\* getAdjacentChunkPositions()
GetAdjacentChunkPositions ==
    /\ call' = [op |-> "getAdjacentChunkPositions", outcome |-> "return",
                value |-> getAdjacentChunkPositions]
    /\ UNCHANGED <<x, y, z, neurons, rawNeurons>>

\* isEqual(otherChunk)
IsEqual(otherChunk) ==
    /\ call' = [op |-> "isEqual", otherChunk |-> otherChunk,
                outcome |-> "return", value |-> isEqual(otherChunk)]
    /\ UNCHANGED <<x, y, z, neurons, rawNeurons>>

\* toJSON()
ToJSON ==
    /\ call' = [op |-> "toJSON", outcome |-> "return", value |-> toJSON]
    /\ UNCHANGED <<x, y, z, neurons, rawNeurons>>

\* The positions looked up: every position a neuron can have.
Positions == [x : NeuronCoords, y : NeuronCoords, z : NeuronCoords]

\* The chunks compared with: every coordinate a chunk can have.
OtherChunks ==
    [x : NeighbourCoords, y : NeighbourCoords, z : NeighbourCoords]

\* The methods that read or write the neurons of the chunk.
Next ==
    \/ \E neuron \in Neuron : AddNeuron(neuron)
    \/ \E position \in Positions : GetNeuronFromPosition(position)
    \/ HasEmptyNeurons
    \/ ToJSON

Spec == Init /\ [][Next]_vars

\* The methods that read the coordinate of the chunk.
NextCoordinate ==
    \/ GetAdjacentChunkPositions
    \/ \E otherChunk \in OtherChunks : IsEqual(otherChunk)

SpecCoordinate == InitCoordinate /\ [][NextCoordinate]_vars

----------------------------------------------------------------------------
(* The chunk: claims C1 to C4 under Spec, C5 under SpecCoordinate *)

\* The elements of an array, as a set.
Elements(array) == {array[i] : i \in DOMAIN array}

\* The neurons held in the nested index this.neurons.
IndexedNeurons ==
    UNION {UNION {{neurons[a][b][c] : c \in DOMAIN neurons[a][b]} :
                    b \in DOMAIN neurons[a]} : a \in DOMAIN neurons}

\* C1: an addNeuron of a neuron whose position is already occupied throws
\* the collision error and leaves the chunk as it was: this.neurons and
\* this.rawNeurons (and so toJSON's output) are the same after the call as
\* before it.
C1_CollisionLeavesChunkUnmodified ==
    [][ (/\ call'.op = "addNeuron"
         /\ getNeuronFromPosition(call'.neuron.position) # Undefined)
        => (/\ call'.outcome = "throw"
            /\ neurons' = neurons
            /\ rawNeurons' = rawNeurons
            /\ toJSON' = toJSON) ]_vars

\* C2: in every reachable state the neurons in the index are the neurons in
\* rawNeurons, and no two entries of rawNeurons have the same position.
C2_IndexAndSequenceAgree ==
    /\ IndexedNeurons = Elements(rawNeurons)
    /\ \A i, j \in DOMAIN rawNeurons :
          i # j => rawNeurons[i].position # rawNeurons[j].position

\* C3: getNeuronFromPosition(p) is undefined in a new chunk and changes
\* only by an addNeuron at p that finds p free, which returns and makes it
\* the added neuron; an addNeuron at an occupied p throws and the neuron
\* already there stays the one returned.
C3_LookupReturnsTheSuccessfulInsert ==
    /\ \A p \in Positions : getNeuronFromPosition(p) = Undefined
    /\ [][ \A p \in Positions :
             IF call'.op = "addNeuron" /\ call'.neuron.position = p
             THEN IF getNeuronFromPosition(p) = Undefined
                  THEN /\ call'.outcome = "return"
                       /\ getNeuronFromPosition(p)' = call'.neuron
                  ELSE /\ call'.outcome = "throw"
                       /\ getNeuronFromPosition(p)' = getNeuronFromPosition(p)
             ELSE getNeuronFromPosition(p)' = getNeuronFromPosition(p) ]_vars

\* C3's case: a second, different neuron was added at an occupied position;
\* the call threw and the lookup still returns the first neuron.
C3_Witness ==
    /\ call.op = "addNeuron"
    /\ call.outcome = "throw"
    /\ getNeuronFromPosition(call.neuron.position) # Undefined
    /\ getNeuronFromPosition(call.neuron.position) # call.neuron
    /\ getNeuronFromPosition(call.neuron.position) = rawNeurons[1]

\* C4: hasEmptyNeurons returns true exactly when some neuron of rawNeurons
\* has the empty payload.
C4_HasEmptyIffSomeEmptyPayload ==
    call.op = "hasEmptyNeurons"
        => (call.value <=> \E i \in DOMAIN rawNeurons : rawNeurons[i].data = "")

\* C5: getAdjacentChunkPositions returns 26 pairwise different coordinates,
\* none the chunk's own, each at most 1 away from it on every axis, and the
\* chunk is in turn among the adjacent positions of each of them.
C5_TwentySixNeighbours ==
    call.op = "getAdjacentChunkPositions"
        => LET adjacentChunks == call.value
               Abs(n) == IF n < 0 THEN -n ELSE n
           IN  /\ Len(adjacentChunks) = 26
               /\ Cardinality(Elements(adjacentChunks)) = 26
               /\ Vector3Int(x, y, z) \notin Elements(adjacentChunks)
               /\ \A d \in Elements(adjacentChunks) :
                     /\ Abs(d.x - x) <= 1
                     /\ Abs(d.y - y) <= 1
                     /\ Abs(d.z - z) <= 1
                     /\ Vector3Int(x, y, z) \in
                            Elements(AdjacentChunkPositionsOf(d.x, d.y, d.z))

----------------------------------------------------------------------------
(* The static functions: inputs *)

\* World coordinates explored run from -MaxCoord to MaxCoord on every axis,
\* besides the coordinates 9, 10 and 15 of the documented examples.
MaxCoord == 1
PointCoords == (-MaxCoord..MaxCoord) \cup {9, 10, 15}

\* worldSize runs from 0 to MaxWorld.
MaxWorld == 1
WorldSizes == 0..MaxWorld

\* chunkSize runs from -1 to MaxChunk, besides the sizes 10 and 16 of the
\* documented examples.
MaxChunk == 2
ChunkSizes == (-1..MaxChunk) \cup {10, 16}

\* Fractions (the decimal of a position, edgeDistanceThreshold) are counted
\* in steps of 1/Steps: the number n stands for n/Steps, Steps for 1.
Steps == 5
Thresholds == -1..(Steps + 1)

----------------------------------------------------------------------------
(* The static functions: their computations *)

\* Math.floor(a / b) with the quotient cut towards zero instead.
FloorOfQuotient_Truncated(a, b) ==
    CASE b > 0 /\ a >= 0 -> Fin(a \div b)
      [] b > 0 /\ a < 0 -> Fin(-((-a) \div b))
      [] b < 0 /\ a >= 0 -> Fin(-(a \div (-b)))
      [] b < 0 /\ a < 0 -> Fin((-a) \div (-b))
      [] a > 0 -> PosInfinity
      [] a < 0 -> NegInfinity
      [] OTHER -> NaN

\* Math.floor(a / b) for integers a and b: a / 0 is Infinity, -Infinity or
\* (0 / 0) NaN, and Math.floor leaves those as they are.
FloorOfQuotient(a, b) ==
    CASE b > 0 -> Fin(a \div b)
      [] b < 0 -> Fin((-a) \div (-b))
      [] a > 0 -> PosInfinity
      [] a < 0 -> NegInfinity
      [] OTHER -> NaN

\* n + d for a JavaScript number n and an integer d.
Plus(n, d) == IF n.kind = "finite" THEN Fin(n.val + d) ELSE n

\* getChunkPositionFromWorldPosition(v3, chunkSize, worldSize)
getChunkPositionFromWorldPosition(v3, chunkSize, worldSize) ==
    LET chunkXCoordinate == FloorOfQuotient(v3.x + worldSize, chunkSize)
        chunkYCoordinate == FloorOfQuotient(v3.y + worldSize, chunkSize)
        chunkZCoordinate == FloorOfQuotient(v3.z + worldSize, chunkSize)
    IN  Vector3Int(chunkXCoordinate, chunkYCoordinate, chunkZCoordinate)

\* Math.floor of a number counted in steps of 1/Steps.
MathFloor(n) == (n \div Steps) * Steps

\* The decimal of a position (lines 189, 194, 198): the position less its
\* Math.floor, in steps of 1/Steps. The position is not divided by chunkSize.
CoordinateChunkDecimal(positionInChunkWorldCoordinates) ==
    LET n == positionInChunkWorldCoordinates * Steps
    IN  n - MathFloor(n)

\* The comparison of lines 200-207 made with <= in place of <.
IsNearBoundary_OrEqual(distance, edgeDistanceThreshold) ==
    distance <= edgeDistanceThreshold

\* distance < edgeDistanceThreshold (lines 200-207).
IsNearBoundary(distance, edgeDistanceThreshold) ==
    distance < edgeDistanceThreshold

\* One push of the chunk dx and dz away on the x and z axes, followed by the
\* push of the one above it when near the top, else of the one below it when
\* near the bottom (lines 211-217, and alike 220-226, 238-244, 247-253,
\* 262-269, 274-281, 286-293, 298-305). near holds the six tests' results.
PushWithAboveOrBelow(c, dx, dz, near) ==
    <<Vector3Int(Plus(c.x, dx), c.y, Plus(c.z, dz))>>
    \o (IF near.isYNearTopBoundary
        THEN <<Vector3Int(Plus(c.x, dx), Plus(c.y, 1), Plus(c.z, dz))>>
        ELSE IF near.isYNearBottomBoundary
             THEN <<Vector3Int(Plus(c.x, dx), Plus(c.y, -1), Plus(c.z, dz))>>
             ELSE <<>>)

\* Gather left or right chunk if necessary (lines 210-227).
GatherLeftOrRight(c, near) ==
    IF near.isXNearLeftBoundary
    THEN PushWithAboveOrBelow(c, -1, 0, near)
    ELSE IF near.isXNearRightBoundary
         THEN PushWithAboveOrBelow(c, 1, 0, near)
         ELSE <<>>

\* Gather top or bottom chunk if necessary (lines 230-234).
GatherTopOrBottom(c, near) ==
    IF near.isYNearBottomBoundary
    THEN <<Vector3Int(c.x, Plus(c.y, -1), c.z)>>
    ELSE IF near.isYNearTopBoundary
         THEN <<Vector3Int(c.x, Plus(c.y, 1), c.z)>>
         ELSE <<>>

\* Gather front or back chunk if necessary (lines 237-254).
GatherFrontOrBack(c, near) ==
    IF near.isZNearBackBoundary
    THEN PushWithAboveOrBelow(c, 0, -1, near)
    ELSE IF near.isZNearFrontBoundary
         THEN PushWithAboveOrBelow(c, 0, 1, near)
         ELSE <<>>

\* The corner cases with the LEFT-BACK corner pushed without its z - 1.
GatherCorners_BackForgotten(c, near) ==
    (IF near.isXNearRightBoundary /\ near.isZNearFrontBoundary
     THEN PushWithAboveOrBelow(c, 1, 1, near) ELSE <<>>)
    \o (IF near.isXNearLeftBoundary /\ near.isZNearFrontBoundary
        THEN PushWithAboveOrBelow(c, -1, 1, near) ELSE <<>>)
    \o (IF near.isXNearRightBoundary /\ near.isZNearBackBoundary
        THEN PushWithAboveOrBelow(c, 1, -1, near) ELSE <<>>)
    \o (IF near.isXNearLeftBoundary /\ near.isZNearBackBoundary
        THEN PushWithAboveOrBelow(c, -1, 0, near) ELSE <<>>)

\* Determine all CORNER cases (lines 260-306): RIGHT-FRONT, LEFT-FRONT,
\* RIGHT-BACK, LEFT-BACK, each tested on its own.
GatherCorners(c, near) ==
    (IF near.isXNearRightBoundary /\ near.isZNearFrontBoundary
     THEN PushWithAboveOrBelow(c, 1, 1, near) ELSE <<>>)
    \o (IF near.isXNearLeftBoundary /\ near.isZNearFrontBoundary
        THEN PushWithAboveOrBelow(c, -1, 1, near) ELSE <<>>)
    \o (IF near.isXNearRightBoundary /\ near.isZNearBackBoundary
        THEN PushWithAboveOrBelow(c, 1, -1, near) ELSE <<>>)
    \o (IF near.isXNearLeftBoundary /\ near.isZNearBackBoundary
        THEN PushWithAboveOrBelow(c, -1, -1, near) ELSE <<>>)

\* edgeChunkCoordinatesCloseby as lines 209-308 fill it, from the chunk of
\* the point and the six near-boundary tests.
GatherEdgeChunks(c, near) ==
    GatherLeftOrRight(c, near)
    \o GatherTopOrBottom(c, near)
    \o GatherFrontOrBack(c, near)
    \o GatherCorners(c, near)

\* getChunkPositionsFromPointEdgeCases(point, worldSize, chunkSize,
\* edgeDistanceThreshold); the threshold and the decimals in steps of 1/Steps.
getChunkPositionsFromPointEdgeCases(point, worldSize, chunkSize, edgeDistanceThreshold) ==
    LET position == point
        thisChunkPosition ==
            getChunkPositionFromWorldPosition(point, chunkSize, worldSize)
        worldSizeOffset == worldSize
        xCoordinateChunkDecimal ==
            CoordinateChunkDecimal(position.x + worldSizeOffset)
        yCoordinateChunkDecimal ==
            CoordinateChunkDecimal(position.y + worldSizeOffset)
        zCoordinateChunkDecimal ==
            CoordinateChunkDecimal(position.z + worldSizeOffset)
        near == [
            isXNearLeftBoundary |->
                IsNearBoundary(xCoordinateChunkDecimal, edgeDistanceThreshold),
            isXNearRightBoundary |->
                IsNearBoundary(Steps - xCoordinateChunkDecimal, edgeDistanceThreshold),
            isYNearBottomBoundary |->
                IsNearBoundary(yCoordinateChunkDecimal, edgeDistanceThreshold),
            isYNearTopBoundary |->
                IsNearBoundary(Steps - yCoordinateChunkDecimal, edgeDistanceThreshold),
            isZNearBackBoundary |->
                IsNearBoundary(zCoordinateChunkDecimal, edgeDistanceThreshold),
            isZNearFrontBoundary |->
                IsNearBoundary(Steps - zCoordinateChunkDecimal, edgeDistanceThreshold)]
    IN  GatherEdgeChunks(thisChunkPosition, near)

----------------------------------------------------------------------------
(* The static functions: one action per function *)

\* The arguments of one call, drawn from the input sets; no chunk is used.
InitAddr ==
    /\ x = 0 /\ y = 0 /\ z = 0
    /\ neurons = EmptyObject
    /\ rawNeurons = <<>>
    /\ \E point \in [x : PointCoords, y : PointCoords, z : PointCoords],
          worldSize \in WorldSizes, chunkSize \in ChunkSizes,
          edgeDistanceThreshold \in Thresholds :
          call = [op |-> "arguments", point |-> point,
                  worldSize |-> worldSize, chunkSize |-> chunkSize,
                  edgeDistanceThreshold |-> edgeDistanceThreshold,
                  outcome |-> "none", value |-> Undefined]

\* NeuralChunk.getChunkPositionFromWorldPosition(v3, chunkSize, worldSize)
GetChunkPositionFromWorldPosition ==
    /\ call' = [call EXCEPT
                  !.op = "getChunkPositionFromWorldPosition",
                  !.outcome = "return",
                  !.value = getChunkPositionFromWorldPosition(
                                call.point, call.chunkSize, call.worldSize)]
    /\ UNCHANGED <<x, y, z, neurons, rawNeurons>>

\* NeuralChunk.getChunkPositionsFromPointEdgeCases(point, worldSize,
\* chunkSize, edgeDistanceThreshold)
GetChunkPositionsFromPointEdgeCases ==
    /\ call' = [call EXCEPT
                  !.op = "getChunkPositionsFromPointEdgeCases",
                  !.outcome = "return",
                  !.value = getChunkPositionsFromPointEdgeCases(
                                call.point, call.worldSize, call.chunkSize,
                                call.edgeDistanceThreshold)]
    /\ UNCHANGED <<x, y, z, neurons, rawNeurons>>

NextAddr ==
    \/ GetChunkPositionFromWorldPosition
    \/ GetChunkPositionsFromPointEdgeCases

SpecAddr == InitAddr /\ [][NextAddr]_vars

----------------------------------------------------------------------------
(* The static functions: claims C6 to C10, under SpecAddr *)

\* The call made was getChunkPositionsFromPointEdgeCases.
EdgeCasesCalled == call.op = "getChunkPositionsFromPointEdgeCases"

\* The call made was getChunkPositionFromWorldPosition.
ChunkPositionCalled == call.op = "getChunkPositionFromWorldPosition"

\* The arguments are ones the documentation allows: chunkSize > 0 and
\* 0 <= edgeDistanceThreshold < 1.
ValidChunkSize == call.chunkSize > 0
ValidThreshold ==
    call.edgeDistanceThreshold >= 0 /\ call.edgeDistanceThreshold < Steps

\* The directions an axis is flagged with by the documented rule, for the
\* world coordinate p: frac = ((p + worldSize) / chunkSize) mod 1, -1 when
\* frac < threshold, +1 when 1 - frac < threshold (both sides multiplied by
\* chunkSize * Steps).
FlaggedDirections(p) ==
    LET m == (p + call.worldSize) % call.chunkSize
    IN  {d \in {-1} : m * Steps < call.edgeDistanceThreshold * call.chunkSize}
        \cup {d \in {1} : (call.chunkSize - m) * Steps
                              < call.edgeDistanceThreshold * call.chunkSize}

\* The documented result: the containing chunk shifted by every combination
\* of 0 or a flagged direction per axis, the all-zero one left out.
DocumentedNearbyChunks ==
    LET cx == (call.point.x + call.worldSize) \div call.chunkSize
        cy == (call.point.y + call.worldSize) \div call.chunkSize
        cz == (call.point.z + call.worldSize) \div call.chunkSize
    IN  {Vector3Int(Fin(cx + dx), Fin(cy + dy), Fin(cz + dz)) :
            dx \in {0} \cup FlaggedDirections(call.point.x),
            dy \in {0} \cup FlaggedDirections(call.point.y),
            dz \in {0} \cup FlaggedDirections(call.point.z)}
        \ {Vector3Int(Fin(cx), Fin(cy), Fin(cz))}

\* C6: for chunkSize > 0 and a threshold in [0, 1) the function returns
\* exactly the documented set; so chunkSize 16, worldSize 0, point
\* (15, 15, 15) and threshold 0.2 give the seven chunks (1,1,1), (1,0,0),
\* (0,1,0), (0,0,1), (1,1,0), (1,0,1), (0,1,1).
C6_NearbyChunksAreTheDocumentedSet ==
    (EdgeCasesCalled /\ ValidChunkSize /\ ValidThreshold)
        => /\ Elements(call.value) = DocumentedNearbyChunks
           /\ (/\ call.chunkSize = 16 /\ call.worldSize = 0
               /\ call.point = Vector3Int(15, 15, 15)
               /\ call.edgeDistanceThreshold * 5 = Steps)
              => Elements(call.value) =
                    {Vector3Int(Fin(dx), Fin(dy), Fin(dz)) :
                        dx \in {0, 1}, dy \in {0, 1}, dz \in {0, 1}}
                    \ {Vector3Int(Fin(0), Fin(0), Fin(0))}

\* C7: for chunkSize > 0 the function returns, on each axis, the floor of
\* (coordinate + worldSize) / chunkSize: the integer c with
\* c * chunkSize <= coordinate + worldSize < (c + 1) * chunkSize, whatever
\* the other two coordinates are; with chunkSize 10 and worldSize 0, x = 9
\* gives chunk x = 0 and x = 10 gives chunk x = 1.
C7_ChunkPositionIsTheFloor ==
    (ChunkPositionCalled /\ ValidChunkSize)
        => LET IsFloor(c, p) ==
                   /\ c.kind = "finite"
                   /\ c.val * call.chunkSize <= p + call.worldSize
                   /\ p + call.worldSize < (c.val + 1) * call.chunkSize
           IN  /\ IsFloor(call.value.x, call.point.x)
               /\ IsFloor(call.value.y, call.point.y)
               /\ IsFloor(call.value.z, call.point.z)
               /\ (call.chunkSize = 10 /\ call.worldSize = 0)
                  => /\ call.point.x = 9 => call.value.x = Fin(0)
                     /\ call.point.x = 10 => call.value.x = Fin(1)

\* C7's case: chunkSize 10, worldSize 0 and x = 10, on the boundary, give
\* chunk x = 1 while y = 9 gives chunk y = 0 and a negative z a negative
\* chunk z.
C7_Witness ==
    /\ ChunkPositionCalled
    /\ call.chunkSize = 10 /\ call.worldSize = 0
    /\ call.point.x = 10 /\ call.value.x = Fin(1)
    /\ call.point.y = 9 /\ call.value.y = Fin(0)
    /\ call.point.z < 0 /\ call.value.z = Fin(-1)

\* C8: a call with chunkSize <= 0, and a call of
\* getChunkPositionsFromPointEdgeCases with a threshold outside [0, 1),
\* fails with an InvalidConfiguration error and returns nothing.
C8_InvalidConfigurationIsRaised ==
    (\/ (ChunkPositionCalled \/ EdgeCasesCalled) /\ ~ValidChunkSize
     \/ EdgeCasesCalled /\ ~ValidThreshold)
        => call.outcome = "throw"

\* C9: for chunkSize > 0, a call with edgeDistanceThreshold = 0 returns an
\* empty array.
C9_ThresholdZeroFindsNothing ==
    (EdgeCasesCalled /\ ValidChunkSize /\ call.edgeDistanceThreshold = 0)
        => call.value = <<>>

\* C9's case: threshold 0 at a point lying exactly on chunk boundaries on
\* all three axes, where the decimal is 0 too; the result is empty.
C9_Witness ==
    /\ EdgeCasesCalled /\ ValidChunkSize
    /\ call.edgeDistanceThreshold = 0
    /\ \A p \in {call.point.x, call.point.y, call.point.z} :
          (p + call.worldSize) % call.chunkSize = 0
    /\ call.value = <<>>

\* Every outcome of the six near-boundary tests of lines 200-207.
NearBoundaryOutcomes ==
    [isXNearLeftBoundary : BOOLEAN, isXNearRightBoundary : BOOLEAN,
     isYNearBottomBoundary : BOOLEAN, isYNearTopBoundary : BOOLEAN,
     isZNearBackBoundary : BOOLEAN, isZNearFrontBoundary : BOOLEAN]

\* C10: for chunkSize > 0 and a threshold in [0, 1) no chunk is returned
\* twice and the containing chunk is not returned; and the same is true of
\* what the function gathers around that chunk under any of the 64 outcomes
\* of its six near-boundary tests, both ends of an axis near included.
C10_NoDuplicateAndNotSelf ==
    (EdgeCasesCalled /\ ValidChunkSize /\ ValidThreshold)
        => LET thisChunkPosition ==
                   getChunkPositionFromWorldPosition(
                       call.point, call.chunkSize, call.worldSize)
               Distinct(chunks) ==
                   /\ Cardinality(Elements(chunks)) = Len(chunks)
                   /\ thisChunkPosition \notin Elements(chunks)
           IN  /\ Distinct(call.value)
               /\ \A near \in NearBoundaryOutcomes :
                     Distinct(GatherEdgeChunks(thisChunkPosition, near))

\* C10's case: a threshold of at least 0.5 and a result of seven chunks,
\* the most the function gathers.
C10_Witness ==
    /\ EdgeCasesCalled /\ ValidChunkSize /\ ValidThreshold
    /\ 2 * call.edgeDistanceThreshold >= Steps
    /\ Len(call.value) = 7
    /\ Cardinality(Elements(call.value)) = 7

====
